---- MODULE Spec2Model ----
(***************************************************************************)
(* The context pickers of crates/assistant2 (directory and thread picker   *)
(* delegates) and the debug sessions of crates/debugger_ui as state        *)
(* machines.  One behaviour of Spec follows one picker, of the kind chosen *)
(* at construction; one behaviour of SessionSpec follows the debug         *)
(* sessions.  Scores are integers (the code's f64 scaled by ScoreScale);   *)
(* texts are sequences of one-character strings.                           *)
(***************************************************************************)
EXTENDS Integers, Sequences, FiniteSets, TLC

VARIABLES
    picker_kind,          \* "directory" | "thread": which delegate this picker holds
    confirm_behavior,     \* ConfirmBehavior given to new()
    picker_alive,         \* the Picker<Delegate> model (`this` of the spawned tasks)
    workspace_alive,      \* WeakModel<Workspace> can be upgraded
    thread_store_alive,   \* WeakModel<ThreadStore> can be upgraded
    context_store_alive,  \* WeakModel<ContextStore> can be upgraded
    context_picker_alive, \* WeakModel<ContextPicker> can be upgraded
    worktrees,            \* the project's worktrees, in project order
    threads,              \* the thread store's threads, in store order
    matches,              \* delegate.matches
    selected_index,       \* delegate.selected_index
    searches,             \* the searches started by update_matches, in issue order
    applied,              \* index in searches of the result last written to matches
    confirm_tasks,        \* the tasks spawned by the directory picker's confirm
    effects,              \* insert_context / reset_mode / DismissEvent, in order
    calls,                \* how often update_matches, confirm, dismissed were called
    sessions,             \* the debug sessions: remote_id and mode of each
    session_outcome       \* what the latest session_id or dedup call came to

vars == <<picker_kind, confirm_behavior, picker_alive, workspace_alive,
          thread_store_alive, context_store_alive, context_picker_alive,
          worktrees, threads, matches, selected_index, searches, applied,
          confirm_tasks, effects, calls, sessions, session_outcome>>

(***************************************************************************)
(* Bounds of the model.                                                    *)
(***************************************************************************)
MaxQueries == 2     \* calls of update_matches
MaxIndex == 1       \* largest index given to set_selected_index
MaxConfirms == 1    \* calls of confirm, and of dismissed
SmallCount == 4     \* directories (threads) of a small candidate source
BigCount == 101     \* directories (threads) of a large candidate source
MaxSessions == 3    \* debug sessions created
MaxClientId == 2    \* client ids of running debug sessions

\* The max_results argument of fuzzy::match_path_sets and fuzzy::match_strings.
MaxResults == 100

\* Integer scores: the matcher's f64 score times ScoreScale.
ScoreScale == 1000

Min(a, b) == IF a <= b THEN a ELSE b

\* seq without its i-th element
Remove(seq, i) == SubSeq(seq, 1, i - 1) \o SubSeq(seq, i + 1, Len(seq))

(***************************************************************************)
(* Texts.                                                                  *)
(***************************************************************************)
\* Bijective base-2 numeral of n-1 over the letters a, b: distinct names.
RECURSIVE Bin(_)
Bin(n) == IF n <= 1 THEN <<>>
          ELSE Append(Bin(n \div 2), IF n % 2 = 0 THEN "a" ELSE "b")

\* The i-th directory path (thread summary) of a generated candidate source.
PathOf(i) == Bin(i + 1)

\* A path byte that is not valid UTF-8, and what to_string_lossy makes of it.
InvalidByte == "0xFF"
ReplacementChar == "U+FFFD"

\* Path::to_string_lossy().to_string()
to_string_lossy(path) ==
    [k \in 1..Len(path) |-> IF path[k] = InvalidByte THEN ReplacementChar ELSE path[k]]

\* char::to_lowercase on the characters the model uses
Lower(c) == CASE c = "N" -> "n" [] c = "T" -> "t" [] OTHER -> c

LowerText(t) == [k \in 1..Len(t) |-> Lower(t[k])]

DEFAULT_SUMMARY == <<"N", "e", "w", " ", "T", "h", "r", "e", "a", "d">>

NoSummary == <<"None">>

Queries == {<<>>, <<"a", "b">>}

(***************************************************************************)
(* Candidate sources: worktrees of directories, and the thread store.      *)
(***************************************************************************)
\* A worktree of n generated directories below its root entry (the empty path).
Worktree(id, root_name, n, visible) ==
    [id |-> id, root_name |-> root_name, visible |-> visible,
     directories |-> [k \in 1..(n + 1) |-> IF k = 1 THEN <<>> ELSE PathOf(k - 1)]]

\* A small worktree, one of whose directory names is not valid UTF-8.
NamedWorktree(id, visible) ==
    [id |-> id, root_name |-> <<"a">>, visible |-> visible,
     directories |-> << <<>>, <<"b">>, <<"b", InvalidByte>> >>]

\* thread.messages() of the thread with this id
MessagesOf(id) ==
    IF id % 2 = 1
    THEN <<[role |-> "User", text |-> <<"q">>], [role |-> "Assistant", text |-> <<"r">>]>>
    ELSE <<>>

\* The thread store's n threads; the first one has no summary yet.
ThreadsOf(n) ==
    [k \in 1..n |-> [id |-> k,
                     summary |-> IF k = 1 THEN NoSummary ELSE PathOf(k + 2),
                     messages |-> MessagesOf(k)]]

(***************************************************************************)
(* The fuzzy matcher (crate fuzzy): subsequence match, score, stable sort  *)
(* by descending score, truncation to max_results.                         *)
(***************************************************************************)
\* The first position >= from of character c in text, 0 when there is none.
FirstAt(c, text, from) ==
    IF \E k \in from..Len(text) : text[k] = c
    THEN CHOOSE k \in from..Len(text) :
            text[k] = c /\ \A m \in from..(k - 1) : text[m] # c
    ELSE 0

\* The (1-based) positions at which query matches text as a subsequence, leftmost
\* first; the sequence holds a 0 when query is no subsequence of text.
RECURSIVE Positions(_, _, _)
Positions(query, text, from) ==
    IF query = <<>> THEN <<>>
    ELSE LET k == FirstAt(Head(query), text, from)
         IN  IF k = 0 THEN <<0>>
             ELSE <<k>> \o Positions(Tail(query), text, k + 1)

IsSubsequence(query, text) ==
    \A k \in DOMAIN Positions(query, text, 1) : Positions(query, text, 1)[k] # 0

Contiguous(pos) == \A k \in 1..(Len(pos) - 1) : pos[k + 1] = pos[k] + 1

\* Higher for shorter texts and for contiguous runs; 0 when there is no match.
Score(query, text) ==
    IF ~IsSubsequence(query, text) THEN 0
    ELSE (ScoreScale \div Len(text))
         + (IF Contiguous(Positions(query, text, 1)) THEN ScoreScale ELSE 0)

\* ms by descending score, entries of equal score in their order in ms.
SortByScore(ms) ==
    LET n == Len(ms)
        rank == [i \in 1..n |->
                    Cardinality({j \in 1..n :
                        \/ ms[j].score > ms[i].score
                        \/ ms[j].score = ms[i].score /\ j < i})]
    IN  [k \in 1..n |-> ms[CHOOSE i \in 1..n : rank[i] = k - 1]]

Truncate(ms, max_results) == SubSeq(ms, 1, Min(Len(ms), max_results))

\* The candidates of one PathMatchCandidateSet scored against query.
ScoredPaths(set, query) ==
    LET prefix == IF set.include_root_name
                  THEN Append(set.snapshot.root_name, "/") ELSE <<>>
        dirs == set.snapshot.directories
        text(k) == LowerText(prefix \o dirs[k])
    IN  [k \in 1..Len(dirs) |->
            [score |-> Score(LowerText(query), text(k)),
             positions |-> [p \in DOMAIN Positions(LowerText(query), text(k), 1) |->
                               Positions(LowerText(query), text(k), 1)[p] - 1],
             worktree_id |-> set.snapshot.id,
             path |-> dirs[k],
             path_prefix |-> prefix,
             distance_to_relative_ancestor |-> 0,
             is_dir |-> TRUE]]

RECURSIVE ScoredSets(_, _)
ScoredSets(sets, query) ==
    IF sets = <<>> THEN <<>>
    ELSE ScoredPaths(Head(sets), query) \o ScoredSets(Tail(sets), query)

IsHit(m) == m.score > 0

\* fuzzy::match_path_sets(candidate_sets, query, None, false, max_results, ..)
match_path_sets(candidate_sets, query, max_results) ==
    Truncate(SortByScore(SelectSeq(ScoredSets(candidate_sets, query), IsHit)),
             max_results)

\* fuzzy::match_strings(candidates, query, false, max_results, ..)
match_strings(candidates, query, max_results) ==
    LET scored == [k \in 1..Len(candidates) |->
                     [candidate_id |-> candidates[k].id,
                      string |-> candidates[k].string,
                      score |-> Score(LowerText(query), LowerText(candidates[k].string)),
                      positions |-> Positions(LowerText(query),
                                              LowerText(candidates[k].string), 1)]]
    IN  Truncate(SortByScore(SelectSeq(scored, IsHit)), max_results)

(***************************************************************************)
(* The directory picker's search, and what update_matches makes of it.     *)
(***************************************************************************)
\* The PathMatch the empty query builds for each directory of one worktree.
WorktreeMatches(worktree) ==
    [k \in 1..Len(worktree.directories) |->
        [score |-> 0,
         positions |-> <<>>,
         worktree_id |-> worktree.id,
         path |-> worktree.directories[k],
         path_prefix |-> worktree.root_name,
         distance_to_relative_ancestor |-> 0,
         is_dir |-> TRUE]]

\* project.worktrees(cx).flat_map(..).collect()
RECURSIVE FlatMapWorktrees(_)
FlatMapWorktrees(wts) ==
    IF wts = <<>> THEN <<>>
    ELSE WorktreeMatches(Head(wts)) \o FlatMapWorktrees(Tail(wts))

IsVisible(worktree) == worktree.visible

\* a search that takes the first visible worktree only
FirstCandidateSet(wts) ==
    LET visible == SelectSeq(wts, IsVisible)
    IN  [k \in 1..Min(Len(visible), 1) |->
            [snapshot |-> visible[k], include_ignored |-> FALSE,
             include_root_name |-> TRUE, candidates |-> "Directories"]]

\* One PathMatchCandidateSet per visible worktree.
CandidateSets(wts) ==
    LET visible == SelectSeq(wts, IsVisible)
    IN  [k \in 1..Len(visible) |->
            [snapshot |-> visible[k], include_ignored |-> FALSE,
             include_root_name |-> TRUE, candidates |-> "Directories"]]

\* search without its branch for the empty query
search_always_scores(query, wts) ==
    match_path_sets(CandidateSets(wts), query, MaxResults)

\* DirectoryContextPickerDelegate::search on the worktrees as update_matches saw them
search(query, wts) ==
    IF query = <<>>
    THEN FlatMapWorktrees(wts)
    ELSE match_path_sets(CandidateSets(wts), query, MaxResults)

\* an update task without the retain
KeepAllPaths(paths) == paths

HasPath(path_match) == path_match.path # <<>>

\* paths.retain(|path_match| path_match.path.as_ref() != empty_path)
RetainNonEmpty(paths) == SelectSeq(paths, HasPath)

\* an update that appends to the list instead of replacing it
ExtendMatches(old, new) == old \o new

\* this.delegate.matches = paths
AssignMatches(old, new) == new

(***************************************************************************)
(* The thread picker's search.                                             *)
(***************************************************************************)
\* The ThreadContextEntry list update_matches collects from the thread store.
ThreadEntries(ths) ==
    [k \in 1..Len(ths) |->
        [id |-> ths[k].id,
         summary |-> IF ths[k].summary = NoSummary THEN DEFAULT_SUMMARY
                     ELSE ths[k].summary]]

\* a search task that takes the k-th thread for the k-th match
thread_search_by_rank(query, entries) ==
    IF query = <<>>
    THEN entries
    ELSE LET candidates == [k \in 1..Len(entries) |->
                               [id |-> k - 1, string |-> entries[k].summary]]
             found == match_strings(candidates, query, MaxResults)
         IN  [k \in 1..Len(found) |-> entries[k]]

\* a search task that keeps the threads that match, in the order of the list
thread_search_in_list_order(query, entries) ==
    IF query = <<>>
    THEN entries
    ELSE LET candidates == [k \in 1..Len(entries) |->
                               [id |-> k - 1, string |-> entries[k].summary]]
             found == match_strings(candidates, query, MaxResults)
             is_found(entry) == \E k \in 1..Len(found) :
                                    entries[found[k].candidate_id + 1] = entry
         IN  SelectSeq(entries, is_found)

\* The background search task of ThreadContextPickerDelegate::update_matches
thread_search(query, entries) ==
    IF query = <<>>
    THEN entries
    ELSE LET candidates == [k \in 1..Len(entries) |->
                               [id |-> k - 1, string |-> entries[k].summary]]
             found == match_strings(candidates, query, MaxResults)
         IN  [k \in 1..Len(found) |-> entries[found[k].candidate_id + 1]]

(***************************************************************************)
(* Effects on the context store and on the context picker.                 *)
(***************************************************************************)
\* context_store.insert_context(kind, label, text)
InsertContext(kind, label, text) ==
    [op |-> "insert_context", kind |-> kind, label |-> label, text |-> text]

\* ContextPicker::reset_mode
ResetMode == [op |-> "reset_mode", kind |-> "", label |-> <<>>, text |-> <<>>]

\* cx.emit(DismissEvent)
DismissEvent == [op |-> "DismissEvent", kind |-> "", label |-> <<>>, text |-> <<>>]

\* dismissed(): self.context_picker.update(cx, ..).ok()
DismissedEffects ==
    IF context_picker_alive THEN <<ResetMode, DismissEvent>> ELSE <<>>

\* The text the thread picker's confirm derives from the thread's messages.
RECURSIVE ThreadText(_)
ThreadText(messages) ==
    IF messages = <<>> THEN <<>>
    ELSE LET message == Head(messages)
             role == CASE message.role = "User" -> "User:"
                       [] message.role = "Assistant" -> "Assistant:"
                       [] OTHER -> "System:"
         IN  (<<role, "\n">> \o message.text \o <<"\n">>) \o ThreadText(Tail(messages))

NoThread == [id |-> 0, summary |-> NoSummary, messages |-> <<>>]

\* thread_store.open_thread(&entry.id, cx): the thread with this id, if still there
open_thread(id) ==
    IF \E k \in 1..Len(threads) : threads[k].id = id
    THEN threads[CHOOSE k \in 1..Len(threads) : threads[k].id = id]
    ELSE NoThread

\* What the thread picker's confirm does to the outside, from matches.get on.
ThreadConfirmEffects ==
    IF selected_index >= Len(matches) THEN <<>>
    ELSE LET entry == matches[selected_index + 1]
             thread == open_thread(entry.id)
         IN  IF ~thread_store_alive THEN <<>>
             ELSE IF thread = NoThread THEN <<>>
             ELSE (IF context_store_alive
                   THEN <<InsertContext("Thread", entry.summary,
                                        ThreadText(thread.messages))>>
                   ELSE <<>>)
                  \o (IF confirm_behavior = "Close" THEN DismissedEffects ELSE <<>>)

\* The confirm task with the match on ConfirmBehavior left out: it dismisses
\* after every insertion.
ConfirmTaskDismissesAlways(task) ==
    IF ~picker_alive THEN <<>>
    ELSE IF ~context_store_alive THEN <<>>
    ELSE <<InsertContext("Directory", to_string_lossy(task.path), <<>>)>>
         \o DismissedEffects

\* a confirm task that looks up the selected match when it runs
ConfirmTaskReadsSelection(task) ==
    IF ~picker_alive THEN <<>>
    ELSE IF selected_index >= Len(matches) THEN <<>>
    ELSE IF ~context_store_alive THEN <<>>
    ELSE <<InsertContext("Directory",
                         to_string_lossy(matches[selected_index + 1].path), <<>>)>>
         \o (IF task.confirm_behavior = "Close" THEN DismissedEffects ELSE <<>>)

\* What the task spawned by the directory picker's confirm does to the outside.
ConfirmTaskEffects(task) ==
    IF ~picker_alive THEN <<>>
    ELSE IF ~context_store_alive THEN <<>>
    ELSE <<InsertContext("Directory", to_string_lossy(task.path), <<>>)>>
         \o (IF task.confirm_behavior = "Close" THEN DismissedEffects ELSE <<>>)

(***************************************************************************)
(* Debug sessions (debugger_ui).                                           *)
(***************************************************************************)
\* DebugSessionState: the three variants; Running owns the state with the
\* client id, here client_id (0 in the other modes).
Modes == {"Inert", "Starting", "Running"}

ClientIds == 1..MaxClientId

\* Option::None, Some(id), and a call that panicked instead of returning
None == [kind |-> "None", id |-> 0]
Some(id) == [kind |-> "Some", id |-> id]
Panic == [kind |-> "panic", id |-> 0]

\* item::Dedup::KeepExisting
KeepExisting == [kind |-> "KeepExisting", id |-> 0]

\* No session_id or dedup call yet.
NotCalled == [kind |-> "not called", id |-> 0]

\* a constructor that starts the session as already running
running_from_the_start == [remote_id |-> None, mode |-> "Running", client_id |-> 1]

\* DebugSession::inert
inert == [remote_id |-> None, mode |-> "Inert", client_id |-> 0]

\* DebugSession::session_id; unimplemented!() panics
session_id(session) ==
    CASE session.mode = "Inert" -> None
      [] session.mode = "Starting" -> Panic
      [] session.mode = "Running" -> Some(session.client_id)

\* DebugSession::dedup: existing.session_id(cx) == self.session_id(cx)
dedup(self, existing) ==
    IF session_id(existing) = Panic \/ session_id(self) = Panic THEN Panic
    ELSE IF session_id(existing) = session_id(self) THEN KeepExisting
    ELSE None

(***************************************************************************)
(* Construction.                                                           *)
(***************************************************************************)
\* The projects a directory picker is opened on.
WorktreeConfigs ==
    { <<>>,
      <<NamedWorktree(1, FALSE), Worktree(2, <<"r">>, SmallCount, TRUE)>>,
      <<NamedWorktree(1, TRUE), Worktree(2, <<"a", "b">>, BigCount, TRUE),
        Worktree(3, <<"r">>, 1, TRUE)>> }

\* wts after the last directory of its last worktree was removed on disk.
WithoutLastDirectory(wts) ==
    [wts EXCEPT ![Len(wts)].directories = SubSeq(@, 1, Len(@) - 1)]

\* Every content the project can have while the picker is open.
WorktreeStates ==
    WorktreeConfigs \cup {WithoutLastDirectory(wts) : wts \in WorktreeConfigs \ {<<>>}}

\* The thread stores a thread picker is opened on.
ThreadConfigs == { ThreadsOf(0), ThreadsOf(SmallCount), ThreadsOf(BigCount) }

\* The threads that may be deleted while the picker is open.
DeletableIds == {1}

Without(ths, ids) == LET keep(thread) == thread.id \notin ids IN SelectSeq(ths, keep)

\* Every content the thread store can have, as update_matches collects it.
ThreadEntryLists ==
    { ThreadEntries(Without(ths, ids)) : ths \in ThreadConfigs, ids \in SUBSET DeletableIds }

\* search and thread_search on every candidate source of the model, computed once.
SearchResults ==
    [query \in Queries, wts \in WorktreeStates |-> search(query, wts)]

ThreadSearchResults ==
    [query \in Queries, entries \in ThreadEntryLists |-> thread_search(query, entries)]

\* DirectoryContextPickerDelegate::new / ThreadContextPickerDelegate::new
Init ==
    /\ picker_kind \in {"directory", "thread"}
    /\ confirm_behavior \in {"KeepOpen", "Close"}
    /\ picker_alive = TRUE
    /\ workspace_alive = TRUE
    /\ thread_store_alive = TRUE
    /\ context_store_alive = TRUE
    /\ context_picker_alive = TRUE
    /\ IF picker_kind = "directory"
       THEN worktrees \in WorktreeConfigs /\ threads = <<>>
       ELSE worktrees = <<>> /\ threads \in ThreadConfigs
    /\ matches = <<>>
    /\ selected_index = 0
    /\ searches = <<>>
    /\ applied = 0
    /\ confirm_tasks = <<>>
    /\ effects = <<>>
    /\ calls = [update_matches |-> 0, confirm |-> 0, dismissed |-> 0]
    /\ sessions = <<>>
    /\ session_outcome = NotCalled

(***************************************************************************)
(* update_matches and the tasks it spawns.                                 *)
(***************************************************************************)
NewSearch(query, candidates) ==
    [query |-> query, candidates |-> candidates,
     cancellation_flag |-> FALSE, status |-> "running"]

\* update_matches searching a project it holds on to, without the upgrade of
\* the workspace reference.
DirUpdateMatchesUnchecked(query) ==
    /\ picker_kind = "directory"
    /\ picker_alive
    /\ calls.update_matches < MaxQueries
    /\ calls' = [calls EXCEPT !.update_matches = @ + 1]
    /\ searches' = Append(searches, NewSearch(query, worktrees))
    /\ UNCHANGED <<sessions, session_outcome, picker_kind, confirm_behavior, picker_alive, workspace_alive,
                   thread_store_alive, context_store_alive, context_picker_alive,
                   worktrees, threads, matches, selected_index, applied,
                   confirm_tasks, effects>>

\* DirectoryContextPickerDelegate::update_matches
DirUpdateMatches(query) ==
    /\ picker_kind = "directory"
    /\ picker_alive
    /\ calls.update_matches < MaxQueries
    /\ calls' = [calls EXCEPT !.update_matches = @ + 1]
    /\ searches' = IF workspace_alive
                   THEN Append(searches, NewSearch(query, worktrees))
                   ELSE searches
    /\ UNCHANGED <<sessions, session_outcome, picker_kind, confirm_behavior, picker_alive, workspace_alive,
                   thread_store_alive, context_store_alive, context_picker_alive,
                   worktrees, threads, matches, selected_index, applied,
                   confirm_tasks, effects>>

\* Task::ready for the empty query: the spawned task finishes at its first poll,
\* and the foreground executor polls spawned tasks in spawn order.
IsReady(s) == s.query = <<>>

\* The task update_matches spawns: await the search, post-filter, write matches.
DirSearchDone(i) ==
    /\ picker_kind = "directory"
    /\ i \in 1..Len(searches)
    /\ searches[i].status = "running"
    /\ \A k \in 1..(i - 1) : IsReady(searches[k]) => searches[k].status = "done"
    /\ LET paths == SearchResults[searches[i].query, searches[i].candidates]
       IN  IF picker_alive
           THEN /\ matches' = AssignMatches(matches, RetainNonEmpty(paths))
                /\ applied' = i
           ELSE UNCHANGED <<matches, applied>>
    /\ searches' = [searches EXCEPT ![i].status = "done"]
    /\ UNCHANGED <<sessions, session_outcome, picker_kind, confirm_behavior, picker_alive, workspace_alive,
                   thread_store_alive, context_store_alive, context_picker_alive,
                   worktrees, threads, selected_index, confirm_tasks, effects, calls>>

\* ThreadContextPickerDelegate::update_matches
ThreadUpdateMatches(query) ==
    /\ picker_kind = "thread"
    /\ picker_alive
    /\ calls.update_matches < MaxQueries
    /\ calls' = [calls EXCEPT !.update_matches = @ + 1]
    /\ searches' = IF thread_store_alive
                   THEN Append(searches, NewSearch(query, ThreadEntries(threads)))
                   ELSE searches
    /\ UNCHANGED <<sessions, session_outcome, picker_kind, confirm_behavior, picker_alive, workspace_alive,
                   thread_store_alive, context_store_alive, context_picker_alive,
                   worktrees, threads, matches, selected_index, applied,
                   confirm_tasks, effects>>

\* The thread picker's task applying its matches and leaving the selection.
ThreadSearchDoneKeepsSelection(i) ==
    /\ picker_kind = "thread"
    /\ i \in 1..Len(searches)
    /\ searches[i].status = "running"
    /\ LET found == ThreadSearchResults[searches[i].query, searches[i].candidates]
       IN  IF picker_alive
           THEN /\ matches' = AssignMatches(matches, found)
                /\ applied' = i
           ELSE UNCHANGED <<matches, applied>>
    /\ searches' = [searches EXCEPT ![i].status = "done"]
    /\ UNCHANGED <<sessions, session_outcome, picker_kind, confirm_behavior, picker_alive, workspace_alive,
                   thread_store_alive, context_store_alive, context_picker_alive,
                   worktrees, threads, selected_index, confirm_tasks, effects, calls>>

\* a search task that reads the thread store when it runs, not the list that
\* update_matches collected
ThreadSearchDoneReadsStore(i) ==
    /\ picker_kind = "thread"
    /\ i \in 1..Len(searches)
    /\ searches[i].status = "running"
    /\ LET found == ThreadSearchResults[searches[i].query, ThreadEntries(threads)]
       IN  IF picker_alive
           THEN /\ matches' = AssignMatches(matches, found)
                /\ selected_index' = 0
                /\ applied' = i
           ELSE UNCHANGED <<matches, selected_index, applied>>
    /\ searches' = [searches EXCEPT ![i].status = "done"]
    /\ UNCHANGED <<sessions, session_outcome, picker_kind, confirm_behavior,
                   picker_alive, workspace_alive,
                   thread_store_alive, context_store_alive, context_picker_alive,
                   worktrees, threads, confirm_tasks, effects, calls>>

\* The task update_matches spawns: await the search, write matches, select 0.
ThreadSearchDone(i) ==
    /\ picker_kind = "thread"
    /\ i \in 1..Len(searches)
    /\ searches[i].status = "running"
    /\ LET found == ThreadSearchResults[searches[i].query, searches[i].candidates]
       IN  IF picker_alive
           THEN /\ matches' = AssignMatches(matches, found)
                /\ selected_index' = 0
                /\ applied' = i
           ELSE UNCHANGED <<matches, selected_index, applied>>
    /\ searches' = [searches EXCEPT ![i].status = "done"]
    /\ UNCHANGED <<sessions, session_outcome, picker_kind, confirm_behavior, picker_alive, workspace_alive,
                   thread_store_alive, context_store_alive, context_picker_alive,
                   worktrees, threads, confirm_tasks, effects, calls>>

(***************************************************************************)
(* Selection, confirm, dismissed.                                          *)
(***************************************************************************)
\* set_selected_index of both delegates
SetSelectedIndex(ix) ==
    /\ picker_alive
    /\ selected_index' = ix
    /\ UNCHANGED <<sessions, session_outcome, picker_kind, confirm_behavior, picker_alive, workspace_alive,
                   thread_store_alive, context_store_alive, context_picker_alive,
                   worktrees, threads, matches, searches, applied,
                   confirm_tasks, effects, calls>>

\* confirm reading the first match where it should read the selected one.
DirConfirmSpawnsFirst ==
    IF matches = <<>> THEN <<>>
    ELSE IF ~workspace_alive THEN <<>>
    ELSE <<[path |-> matches[1].path,
            worktree_id |-> matches[1].worktree_id,
            confirm_behavior |-> confirm_behavior]>>

\* The synchronous part of DirectoryContextPickerDelegate::confirm: the task it
\* spawns, if any, with the path and worktree of the selected match.
DirConfirmSpawns ==
    IF selected_index >= Len(matches) THEN <<>>
    ELSE IF ~workspace_alive THEN <<>>
    ELSE <<[path |-> matches[selected_index + 1].path,
            worktree_id |-> matches[selected_index + 1].worktree_id,
            confirm_behavior |-> confirm_behavior]>>

\* DirectoryContextPickerDelegate::confirm
DirConfirm ==
    /\ picker_kind = "directory"
    /\ picker_alive
    /\ calls.confirm < MaxConfirms
    /\ calls' = [calls EXCEPT !.confirm = @ + 1]
    /\ confirm_tasks' = confirm_tasks \o DirConfirmSpawns
    /\ UNCHANGED <<sessions, session_outcome, picker_kind, confirm_behavior, picker_alive, workspace_alive,
                   thread_store_alive, context_store_alive, context_picker_alive,
                   worktrees, threads, matches, selected_index, searches, applied, effects>>

\* The task confirm spawned runs: insert into the context store, then dismiss.
DirConfirmTask(i) ==
    /\ picker_kind = "directory"
    /\ i \in 1..Len(confirm_tasks)
    /\ effects' = effects \o ConfirmTaskEffects(confirm_tasks[i])
    /\ confirm_tasks' = Remove(confirm_tasks, i)
    /\ UNCHANGED <<sessions, session_outcome, picker_kind, confirm_behavior, picker_alive, workspace_alive,
                   thread_store_alive, context_store_alive, context_picker_alive,
                   worktrees, threads, matches, selected_index, searches, applied, calls>>

\* ThreadContextPickerDelegate::confirm
ThreadConfirm ==
    /\ picker_kind = "thread"
    /\ picker_alive
    /\ calls.confirm < MaxConfirms
    /\ calls' = [calls EXCEPT !.confirm = @ + 1]
    /\ effects' = effects \o ThreadConfirmEffects
    /\ UNCHANGED <<sessions, session_outcome, picker_kind, confirm_behavior, picker_alive, workspace_alive,
                   thread_store_alive, context_store_alive, context_picker_alive,
                   worktrees, threads, matches, selected_index, searches, applied,
                   confirm_tasks>>

\* dismissed of both delegates, called by the picker when it is cancelled
Dismissed ==
    /\ picker_alive
    /\ calls.dismissed < MaxConfirms
    /\ calls' = [calls EXCEPT !.dismissed = @ + 1]
    /\ effects' = effects \o DismissedEffects
    /\ UNCHANGED <<sessions, session_outcome, picker_kind, confirm_behavior, picker_alive, workspace_alive,
                   thread_store_alive, context_store_alive, context_picker_alive,
                   worktrees, threads, matches, selected_index, searches, applied,
                   confirm_tasks>>

(***************************************************************************)
(* The rest of the application: models are released, threads are deleted.  *)
(* Followed while the picker exists: once it is released, no task of it    *)
(* reads the other models any more.                                        *)
(***************************************************************************)
DropPicker ==
    /\ picker_alive
    /\ picker_alive' = FALSE
    /\ UNCHANGED <<sessions, session_outcome, picker_kind, confirm_behavior, workspace_alive,
                   thread_store_alive, context_store_alive, context_picker_alive,
                   worktrees, threads, matches, selected_index, searches, applied,
                   confirm_tasks, effects, calls>>

DropWorkspace ==
    /\ picker_alive
    /\ picker_kind = "directory"
    /\ workspace_alive
    /\ workspace_alive' = FALSE
    /\ UNCHANGED <<sessions, session_outcome, picker_kind, confirm_behavior, picker_alive,
                   thread_store_alive, context_store_alive, context_picker_alive,
                   worktrees, threads, matches, selected_index, searches, applied,
                   confirm_tasks, effects, calls>>

DropThreadStore ==
    /\ picker_alive
    /\ picker_kind = "thread"
    /\ thread_store_alive
    /\ thread_store_alive' = FALSE
    /\ UNCHANGED <<sessions, session_outcome, picker_kind, confirm_behavior, picker_alive, workspace_alive,
                   context_store_alive, context_picker_alive,
                   worktrees, threads, matches, selected_index, searches, applied,
                   confirm_tasks, effects, calls>>

DropContextStore ==
    /\ picker_alive
    /\ context_store_alive
    /\ context_store_alive' = FALSE
    /\ UNCHANGED <<sessions, session_outcome, picker_kind, confirm_behavior, picker_alive, workspace_alive,
                   thread_store_alive, context_picker_alive,
                   worktrees, threads, matches, selected_index, searches, applied,
                   confirm_tasks, effects, calls>>

DropContextPicker ==
    /\ picker_alive
    /\ context_picker_alive
    /\ context_picker_alive' = FALSE
    /\ UNCHANGED <<sessions, session_outcome, picker_kind, confirm_behavior, picker_alive, workspace_alive,
                   thread_store_alive, context_store_alive,
                   worktrees, threads, matches, selected_index, searches, applied,
                   confirm_tasks, effects, calls>>

\* A thread is deleted from the thread store.
DeleteThread(id) ==
    /\ picker_alive
    /\ picker_kind = "thread"
    /\ thread_store_alive
    /\ \E k \in 1..Len(threads) : threads[k].id = id
    /\ threads' = Without(threads, {id})
    /\ UNCHANGED <<sessions, session_outcome, picker_kind, confirm_behavior, picker_alive, workspace_alive,
                   thread_store_alive, context_store_alive, context_picker_alive,
                   worktrees, matches, selected_index, searches, applied,
                   confirm_tasks, effects, calls>>

\* A directory is removed on disk while a search is under way, and the
\* worktree that held it is scanned again.
RemoveDirectory ==
    /\ picker_alive
    /\ picker_kind = "directory"
    /\ workspace_alive
    /\ worktrees \in WorktreeConfigs \ {<<>>}
    /\ \E i \in 1..Len(searches) : searches[i].status = "running"
    /\ worktrees' = WithoutLastDirectory(worktrees)
    /\ UNCHANGED <<sessions, session_outcome, picker_kind, confirm_behavior,
                   picker_alive, workspace_alive,
                   thread_store_alive, context_store_alive, context_picker_alive,
                   threads, matches, selected_index, searches, applied,
                   confirm_tasks, effects, calls>>

Next ==
    \/ \E query \in Queries : DirUpdateMatches(query)
    \/ \E i \in 1..MaxQueries : DirSearchDone(i)
    \/ \E query \in Queries : ThreadUpdateMatches(query)
    \/ \E i \in 1..MaxQueries : ThreadSearchDone(i)
    \/ \E ix \in 0..MaxIndex : SetSelectedIndex(ix)
    \/ DirConfirm
    \/ \E i \in 1..MaxConfirms : DirConfirmTask(i)
    \/ ThreadConfirm
    \/ Dismissed
    \/ DropPicker
    \/ DropWorkspace
    \/ DropThreadStore
    \/ DropContextStore
    \/ DropContextPicker
    \/ \E id \in DeletableIds : DeleteThread(id)
    \/ RemoveDirectory

Spec == Init /\ [][Next]_vars

\* The executors run every task that was spawned: a search task that can
\* finish does, and so does the task of a confirm.
FairSpec ==
    /\ Spec
    /\ \A i \in 1..MaxQueries : WF_vars(DirSearchDone(i))
    /\ \A i \in 1..MaxQueries : WF_vars(ThreadSearchDone(i))
    /\ \A i \in 1..MaxConfirms : WF_vars(DirConfirmTask(i))

(***************************************************************************)
(* The debug sessions of a debug panel, next to a picker nobody touches.   *)
(***************************************************************************)
picker_vars == <<picker_kind, confirm_behavior, picker_alive, workspace_alive,
                 thread_store_alive, context_store_alive, context_picker_alive,
                 worktrees, threads, matches, selected_index, searches, applied,
                 confirm_tasks, effects, calls>>

\* No session yet; a directory picker just created on an empty project.
SessionInit ==
    /\ Init
    /\ picker_kind = "directory"
    /\ confirm_behavior = "KeepOpen"
    /\ worktrees = <<>>

\* A panic ends the process.
Crashed == session_outcome = Panic

\* DebugSession::inert, called by the debug panel
NewInertSession ==
    /\ ~Crashed
    /\ Len(sessions) < MaxSessions
    /\ sessions' = Append(sessions, inert)
    /\ UNCHANGED <<session_outcome, picker_vars>>

\* A launch is requested for an inert session.
Launch(i) ==
    /\ ~Crashed
    /\ i \in 1..Len(sessions)
    /\ sessions[i].mode = "Inert"
    /\ sessions' = [sessions EXCEPT ![i].mode = "Starting"]
    /\ UNCHANGED <<session_outcome, picker_vars>>

\* The handshake with the debug adapter of a starting session succeeds.
HandshakeSucceeds(i, id) ==
    /\ ~Crashed
    /\ i \in 1..Len(sessions)
    /\ sessions[i].mode = "Starting"
    /\ sessions' = [sessions EXCEPT ![i].mode = "Running", ![i].client_id = id]
    /\ UNCHANGED <<session_outcome, picker_vars>>

\* A call of DebugSession::session_id
SessionId(i) ==
    /\ ~Crashed
    /\ i \in 1..Len(sessions)
    /\ session_outcome' = session_id(sessions[i])
    /\ UNCHANGED <<sessions, picker_vars>>

\* A call of DebugSession::dedup, by the workspace when an item is added
Dedup(i, j) ==
    /\ ~Crashed
    /\ i \in 1..Len(sessions)
    /\ j \in 1..Len(sessions)
    /\ i # j
    /\ session_outcome' = dedup(sessions[i], sessions[j])
    /\ UNCHANGED <<sessions, picker_vars>>

SessionNext ==
    \/ NewInertSession
    \/ \E i \in 1..MaxSessions : Launch(i)
    \/ \E i \in 1..MaxSessions, id \in ClientIds : HandshakeSucceeds(i, id)
    \/ \E i \in 1..MaxSessions : SessionId(i)
    \/ \E i, j \in 1..MaxSessions : Dedup(i, j)

SessionSpec == SessionInit /\ [][SessionNext]_vars

(***************************************************************************)
(* Properties.                                                             *)
(***************************************************************************)
\* Everything but the count of calls.
state == <<picker_kind, confirm_behavior, picker_alive, workspace_alive,
           thread_store_alive, context_store_alive, context_picker_alive,
           worktrees, threads, matches, selected_index, searches, applied,
           confirm_tasks, effects>>

\* What the completion of search s writes to matches.
Displayed(s) ==
    IF picker_kind = "directory"
    THEN RetainNonEmpty(SearchResults[s.query, s.candidates])
    ELSE ThreadSearchResults[s.query, s.candidates]

AllDone == \A i \in 1..Len(searches) : searches[i].status = "done"

\* C1: once two queries issued one after the other to a picker have both
\* completed, in whatever order, matches is the result of the later query.
C1_LatestQueryWins ==
    (picker_alive /\ Len(searches) >= 2 /\ AllDone)
        => matches = Displayed(searches[Len(searches)])

\* C2: a search that was still running when a later query was issued has had
\* its cancellation flag raised.
C2_SupersededFlagRaised ==
    \A i \in 1..(Len(searches) - 1) :
        searches[i].status = "running" => searches[i].cancellation_flag

\* C3: a picker never holds more than 100 matches.
C3_MatchesWithinCap == Len(matches) <= MaxResults

\* The k-th directory of the worktrees, worktree by worktree, in tree order.
RECURSIVE DirAt(_, _)
DirAt(wts, k) ==
    IF k <= Len(wts[1].directories)
    THEN [worktree_id |-> wts[1].id, path |-> wts[1].directories[k]]
    ELSE DirAt(Tail(wts), k - Len(wts[1].directories))

RECURSIVE DirCount(_)
DirCount(wts) ==
    IF wts = <<>> THEN 0 ELSE Len(wts[1].directories) + DirCount(Tail(wts))

\* The directories of each project of the model in enumeration order, computed once.
Enumeration ==
    [wts \in WorktreeStates |-> [k \in 1..DirCount(wts) |-> DirAt(wts, k)]]

EmptyQueryInOrder(s) ==
    IF picker_kind = "directory"
    THEN LET found == SearchResults[s.query, s.candidates]
             dirs == Enumeration[s.candidates]
         IN  /\ Len(found) = Len(dirs)
             /\ \A k \in 1..Len(found) :
                   /\ found[k].worktree_id = dirs[k].worktree_id
                   /\ found[k].path = dirs[k].path
                   /\ found[k].score = 0
                   /\ found[k].positions = <<>>
    ELSE ThreadSearchResults[s.query, s.candidates] = s.candidates

\* C4: for the empty query a search returns the candidates in enumeration
\* order, unscored (directory matches with score 0 and no positions), and
\* that is what the picker shows once the result is applied.
C4_EmptyQueryOrder ==
    /\ \A i \in 1..Len(searches) :
          searches[i].query = <<>> => EmptyQueryInOrder(searches[i])
    /\ (applied # 0 /\ searches[applied].query = <<>>)
          => \A k \in 1..Len(matches) :
                IF picker_kind = "directory"
                THEN matches[k].score = 0 /\ matches[k].positions = <<>>
                ELSE matches[k] = searches[applied].candidates[k]

\* An empty-query result over two worktrees is on display.
C4_Witness ==
    /\ picker_kind = "directory"
    /\ applied # 0
    /\ searches[applied].query = <<>>
    /\ Len(matches) >= 2
    /\ matches[1].worktree_id # matches[Len(matches)].worktree_id

SearchDone ==
    \/ \E i \in 1..MaxQueries : DirSearchDone(i)
    \/ \E i \in 1..MaxQueries : ThreadSearchDone(i)

InRange == Len(matches) > 0 => selected_index < Len(matches)

\* C5: selected_index stays the index of a match: when it is the index of a
\* match and a search result is applied, it is in range of the new matches,
\* also when there are fewer of them than before.
C5_SelectedIndexInRange ==
    [][(SearchDone /\ selected_index < Len(matches)) => InRange']_vars

\* The effects a step adds.
NewEffects == SubSeq(effects', Len(effects) + 1, Len(effects'))

IsInsert(e) == e.op = "insert_context"

ConfirmRuns ==
    \/ ThreadConfirm
    \/ \E i \in 1..MaxConfirms : DirConfirmTask(i)

\* C6: a confirm whose insertion fails because the context store is gone
\* inserts nothing, leaves matches and selected_index as they are and does
\* not dismiss the picker, whatever its ConfirmBehavior.
C6_FailedInsertionChangesNothing ==
    [][(ConfirmRuns /\ ~context_store_alive)
          => (effects' = effects /\ matches' = matches
              /\ selected_index' = selected_index)]_vars

\* C7: a confirm that inserted keeps a KeepOpen picker open (it adds no
\* reset_mode and no DismissEvent) and dismisses a Close picker exactly once,
\* after the insertion: reset_mode, then one DismissEvent, to the context
\* picker if that is still there.  No confirm dismisses a KeepOpen picker.
C7_DismissalFollowsConfirmBehavior ==
    [][ConfirmRuns =>
          /\ (confirm_behavior = "KeepOpen")
                => \A k \in 1..Len(NewEffects) : IsInsert(NewEffects[k])
          /\ (NewEffects # <<>> /\ IsInsert(NewEffects[1]))
                => NewEffects =
                     <<NewEffects[1]>> \o
                     (IF confirm_behavior = "Close" /\ context_picker_alive
                      THEN <<ResetMode, DismissEvent>> ELSE <<>>)]_vars

\* A Close picker has inserted and then been dismissed.
C7_Witness ==
    /\ confirm_behavior = "Close"
    /\ Len(effects) = 3
    /\ IsInsert(effects[1])
    /\ effects[2] = ResetMode
    /\ effects[3] = DismissEvent

Inserts(es) == SelectSeq(es, IsInsert)

Selected == matches[selected_index + 1]

\* The outcome C8 states for a confirm that finds a selected match, given
\* whether the thread picker can open the selected thread.
ConfirmInserts(thread_found) ==
    /\ (ThreadConfirm /\ selected_index < Len(matches) /\ thread_store_alive
           /\ context_store_alive /\ thread_found)
          => /\ Len(Inserts(NewEffects)) = 1
             /\ Inserts(NewEffects)[1].kind = "Thread"
             /\ Inserts(NewEffects)[1].label = Selected.summary
    /\ (DirConfirm /\ selected_index < Len(matches) /\ workspace_alive)
          => /\ Len(confirm_tasks') = Len(confirm_tasks) + 1
             /\ confirm_tasks'[Len(confirm_tasks')].path = Selected.path
    /\ \A i \in 1..MaxConfirms :
          (DirConfirmTask(i) /\ picker_alive /\ context_store_alive)
             => /\ Len(Inserts(NewEffects)) = 1
                /\ Inserts(NewEffects)[1].kind = "Directory"
                /\ Inserts(NewEffects)[1].label = to_string_lossy(confirm_tasks[i].path)
    /\ ((ThreadConfirm \/ DirConfirm) /\ selected_index >= Len(matches))
          => UNCHANGED state

\* C8 as stated: a confirm with selected_index < match_count and live stores
\* inserts exactly one entry, of kind Directory labelled with the selected
\* path (by the task it spawns) or of kind Thread labelled with the selected
\* summary; with selected_index >= match_count it changes nothing.
C8_ConfirmInsertsSelected == [][ConfirmInserts(TRUE)]_vars

\* C8, amended: the same, for the thread picker when the thread store still
\* holds the thread of the selected entry.
C8_ConfirmInsertsSelectedIfThreadExists ==
    [][ConfirmInserts(\E k \in 1..Len(threads) : threads[k].id = Selected.id)]_vars

\* The directory whose name is not valid UTF-8 has been inserted.
C8_Witness ==
    \E k \in 1..Len(effects) :
        /\ effects[k].kind = "Directory"
        /\ effects[k].label = <<"b", ReplacementChar>>

\* C9: an operation whose weak reference is gone does nothing: update_matches
\* without workspace (thread store) starts no search and leaves matches and
\* selected_index alone, confirm without workspace (thread store) spawns and
\* inserts nothing and does not dismiss, dismissed without context picker
\* emits nothing.
C9_TornDownIsNoOp ==
    [][/\ ((\E query \in Queries : DirUpdateMatches(query)) /\ ~workspace_alive)
            => UNCHANGED state
       /\ ((\E query \in Queries : ThreadUpdateMatches(query)) /\ ~thread_store_alive)
            => UNCHANGED state
       /\ (DirConfirm /\ ~workspace_alive) => UNCHANGED state
       /\ (ThreadConfirm /\ ~thread_store_alive) => UNCHANGED state
       /\ (Dismissed /\ ~context_picker_alive) => UNCHANGED state]_vars

\* update_matches and confirm were called on a picker with matches after its
\* workspace (thread store) had gone, and started and inserted nothing.
C9_Witness ==
    /\ picker_alive
    /\ matches # <<>>
    /\ calls.update_matches = MaxQueries
    /\ calls.confirm = MaxConfirms
    /\ Len(searches) < MaxQueries
    /\ confirm_tasks = <<>>
    /\ effects = <<>>
    /\ IF picker_kind = "directory" THEN ~workspace_alive ELSE ~thread_store_alive

\* C10: matches is always the whole result of one search, the one applied
\* last, and nothing else; before the first result it is empty.
C10_MatchesAreOneResult ==
    matches = IF applied = 0 THEN <<>> ELSE Displayed(searches[applied])

\* A second, different result has replaced an earlier one.
C10_Witness ==
    /\ picker_alive
    /\ Len(searches) = 2
    /\ AllDone
    /\ applied = 2
    /\ matches # <<>>
    /\ Displayed(searches[1]) # <<>>
    /\ Displayed(searches[1]) # Displayed(searches[2])

\* The positions in raw of its entries with a non-empty path, in ascending order.
KeptPositions(raw) ==
    LET kept == {i \in 1..Len(raw) : raw[i].path # <<>>}
    IN  [k \in 1..Cardinality(kept) |->
            CHOOSE i \in kept : Cardinality({j \in kept : j < i}) = k - 1]

\* KeptPositions of every search result of the model, computed once.
KeptOf ==
    [query \in Queries, wts \in WorktreeStates |->
        KeptPositions(SearchResults[query, wts])]

\* C11: the directory picker never shows an entry with an empty path: what it
\* shows is the applied search result without its empty-path entries and
\* nothing else removed, the others in their order and with the score and
\* positions the search gave them.
C11_NoEmptyPathShown ==
    picker_kind = "directory" =>
        /\ \A k \in 1..Len(matches) : matches[k].path # <<>>
        /\ applied # 0 =>
              LET raw == SearchResults[searches[applied].query, searches[applied].candidates]
                  kept == KeptOf[searches[applied].query, searches[applied].candidates]
              IN  /\ Len(matches) = Len(kept)
                  /\ \A k \in 1..Len(kept) : matches[k] = raw[kept[k]]

\* A result with empty-path entries (the worktree roots) between others has
\* been applied.
C11_Witness ==
    /\ picker_kind = "directory"
    /\ applied # 0
    /\ matches # <<>>
    /\ LET raw == SearchResults[searches[applied].query, searches[applied].candidates]
       IN  \E i, j \in 1..Len(raw) : i < j /\ raw[i].path # <<>> /\ raw[j].path = <<>>

\* C12: a session's mode is one of Inert, Starting, Running; DebugSession::inert
\* makes a session in Inert without remote id; and a step changes the mode of
\* a session only from Inert to Starting or from Starting to Running.
C12_ModeMovesForwardOnly ==
    [][/\ \A i \in 1..Len(sessions') : sessions'[i].mode \in Modes
       /\ Len(sessions') >= Len(sessions)
       /\ \A i \in (Len(sessions) + 1)..Len(sessions') :
             sessions'[i].mode = "Inert" /\ sessions'[i].remote_id = None
       /\ \A i \in 1..Len(sessions) :
             \/ sessions'[i].mode = sessions[i].mode
             \/ sessions[i].mode = "Inert" /\ sessions'[i].mode = "Starting"
             \/ sessions[i].mode = "Starting" /\ sessions'[i].mode = "Running"]_vars

\* Sessions in all three modes, each reached from Inert.
C12_Witness ==
    \A mode \in Modes : \E i \in 1..Len(sessions) : sessions[i].mode = mode

\* C13: session_id and dedup return whatever the modes of the sessions: no
\* call panics.
C13_SessionIdReturns == session_outcome # Panic

\* query's characters occur in text in their order, not necessarily side by side.
RECURSIVE Embeds(_, _)
Embeds(query, text) ==
    IF query = <<>> THEN TRUE
    ELSE IF text = <<>> THEN FALSE
    ELSE IF Head(query) = Head(text) THEN Embeds(Tail(query), Tail(text))
    ELSE Embeds(query, Tail(text))

\* What the picker shows of a match: the path with its prefix, the summary.
DisplayText(m) ==
    IF picker_kind = "directory" THEN m.path_prefix \o m.path ELSE m.summary

\* Every text a match of the model can show.
DisplayTexts ==
    UNION { UNION { { Append(wts[w].root_name, "/") \o wts[w].directories[k] :
                        k \in 1..Len(wts[w].directories) } :
                    w \in 1..Len(wts) } :
            wts \in WorktreeConfigs }
    \cup UNION { { entries[k].summary : k \in 1..Len(entries) } :
                 entries \in ThreadEntryLists }

\* Embeds on the queries and texts of the model, computed once.
EmbedsIn ==
    [query \in Queries, text \in DisplayTexts |-> Embeds(query, text)]

\* C14: what is shown for a non-empty query contains the query's characters
\* as a subsequence, entry by entry; a search over no candidates shows nothing.
C14_ShownEntriesEmbedQuery ==
    applied # 0 =>
        /\ searches[applied].query # <<>> =>
              \A k \in 1..Len(matches) :
                  EmbedsIn[searches[applied].query, DisplayText(matches[k])]
        /\ searches[applied].candidates = <<>> => matches = <<>>

\* The thread picker shows the hits of a non-empty query over a thread list
\* that also holds a thread without summary and other threads that are no hit.
C14_Witness ==
    /\ picker_kind = "thread"
    /\ applied # 0
    /\ searches[applied].query # <<>>
    /\ Len(matches) >= 2
    /\ \E k \in 1..Len(searches[applied].candidates) :
          searches[applied].candidates[k].summary = DEFAULT_SUMMARY
    /\ \E k \in 1..Len(searches[applied].candidates) :
          /\ searches[applied].candidates[k].summary # DEFAULT_SUMMARY
          /\ ~EmbedsIn[searches[applied].query, searches[applied].candidates[k].summary]

\* The score of each text of the model for each query, computed once.
ScoreOf ==
    [query \in Queries, text \in DisplayTexts |->
        Score(LowerText(query), LowerText(text))]

\* The place of each directory among the candidates, and of each thread entry
\* in each thread list, computed once.
DirRank ==
    [wts \in WorktreeStates |->
        [e \in {Enumeration[wts][k] : k \in 1..Len(Enumeration[wts])} |->
            CHOOSE k \in 1..Len(Enumeration[wts]) : Enumeration[wts][k] = e]]

ThreadRank ==
    [entries \in ThreadEntryLists |->
        [e \in {entries[k] : k \in 1..Len(entries)} |->
            CHOOSE k \in 1..Len(entries) : entries[k] = e]]

\* The score and the candidate place of a shown match of search s.
ShownScore(s, m) ==
    IF picker_kind = "directory" THEN m.score ELSE ScoreOf[s.query, m.summary]

ShownRank(s, m) ==
    IF picker_kind = "directory"
    THEN DirRank[s.candidates][[worktree_id |-> m.worktree_id, path |-> m.path]]
    ELSE ThreadRank[s.candidates][m]

\* C15: what is shown for a non-empty query is in descending order of score,
\* and entries of equal score are in the order of the candidates.
C15_ShownByDescendingScore ==
    (applied # 0 /\ searches[applied].query # <<>>) =>
        \A k \in 1..(Len(matches) - 1) :
            LET s == searches[applied]
            IN  \/ ShownScore(s, matches[k]) > ShownScore(s, matches[k + 1])
                \/ /\ ShownScore(s, matches[k]) = ShownScore(s, matches[k + 1])
                   /\ ShownRank(s, matches[k]) < ShownRank(s, matches[k + 1])

\* A shown list with entries of different and of equal score, whose order is
\* not the order of the candidates.
C15_Witness ==
    /\ applied # 0
    /\ searches[applied].query # <<>>
    /\ LET s == searches[applied]
       IN  /\ \E k \in 1..(Len(matches) - 1) :
                 ShownScore(s, matches[k]) = ShownScore(s, matches[k + 1])
           /\ \E k \in 1..(Len(matches) - 1) :
                 /\ ShownScore(s, matches[k]) > ShownScore(s, matches[k + 1])
                 /\ ShownRank(s, matches[k]) > ShownRank(s, matches[k + 1])

\* The hits of query in one worktree, scored on its own.
SourceHits(query, worktree) ==
    LET scored == ScoredPaths([snapshot |-> worktree, include_ignored |-> FALSE,
                               include_root_name |-> TRUE,
                               candidates |-> "Directories"], query)
    IN  {scored[k] : k \in {j \in 1..Len(scored) : scored[j].score > 0}}

\* The hits of each visible worktree of each project, computed once.
HitsBySource ==
    [query \in Queries \ {<<>>}, wts \in WorktreeStates |->
        [w \in {v \in 1..Len(wts) : wts[v].visible} |-> SourceHits(query, wts[w])]]

\* The hits of all visible worktrees of each project together, computed once.
AllHits ==
    [query \in Queries \ {<<>>}, wts \in WorktreeStates |->
        UNION {HitsBySource[query, wts][w] : w \in DOMAIN HitsBySource[query, wts]}]

\* found is a best-scored selection of at most MaxResults of the hits of all
\* sources together.
IsTopOfUnion(found, hits) ==
    LET shown == {found[k] : k \in 1..Len(found)}
    IN  /\ shown \subseteq hits
        /\ Cardinality(shown) = Len(found)
        /\ Len(found) = Min(Cardinality(hits), MaxResults)
        /\ \A h \in hits \ shown : \A k \in 1..Len(found) : found[k].score >= h.score

\* IsTopOfUnion of every non-empty search of the model, computed once.
MergedTop ==
    [query \in Queries \ {<<>>}, wts \in WorktreeStates |->
        IsTopOfUnion(SearchResults[query, wts], AllHits[query, wts])]

\* C16: a non-empty query over several worktrees gives the best-scored hits
\* of all visible worktrees together, cut once to 100; a worktree without hits takes nothing from the others; and
\* what is shown is made of these hits only.
C16_MergedBeforeTruncation ==
    picker_kind = "directory" =>
        /\ \A i \in 1..Len(searches) :
              searches[i].query # <<>> =>
                  MergedTop[searches[i].query, searches[i].candidates]
        /\ (applied # 0 /\ searches[applied].query # <<>>) =>
              \A k \in 1..Len(matches) :
                  matches[k] \in AllHits[searches[applied].query,
                                        searches[applied].candidates]

\* Shown: the hits of a project in which one visible worktree has none, one
\* has more than 100, and one has hits that all fell to the cut.
C16_Witness ==
    /\ picker_kind = "directory"
    /\ applied # 0
    /\ searches[applied].query # <<>>
    /\ matches # <<>>
    /\ LET by_source == HitsBySource[searches[applied].query, searches[applied].candidates]
       IN  /\ \E w \in DOMAIN by_source : by_source[w] = {}
           /\ \E w \in DOMAIN by_source : Cardinality(by_source[w]) > MaxResults
           /\ \E w \in DOMAIN by_source :
                 /\ by_source[w] # {}
                 /\ \A k \in 1..Len(matches) : matches[k] \notin by_source[w]

\* The thread ids of the store and the directories of the project, as they are now.
InStoreNow(m) ==
    IF picker_kind = "directory"
    THEN \E w \in 1..Len(worktrees) :
            /\ worktrees[w].id = m.worktree_id
            /\ \E k \in 1..Len(worktrees[w].directories) :
                  worktrees[w].directories[k] = m.path
    ELSE \E k \in 1..Len(threads) : threads[k].id = m.id

UpdateMatchesRuns ==
    \/ \E query \in Queries : DirUpdateMatches(query)
    \/ \E query \in Queries : ThreadUpdateMatches(query)
    \/ SearchDone

\* C18: the result a search task applies is the result over the candidates
\* as they were when update_matches was called, whatever has become of the
\* thread store or the worktrees since: the thread picker's entries are all
\* entries of the list collected then; and no step of update_matches or of
\* its tasks changes the thread store or the worktrees.
C18_SearchReadsSnapshot ==
    [][/\ \A i \in 1..MaxQueries :
             ((DirSearchDone(i) \/ ThreadSearchDone(i)) /\ picker_alive)
                => /\ matches' = Displayed(searches[i])
                   /\ picker_kind = "thread" =>
                         \A k \in 1..Len(matches') :
                             \E c \in 1..Len(searches[i].candidates) :
                                 matches'[k] = searches[i].candidates[c]
       /\ UpdateMatchesRuns => UNCHANGED <<threads, worktrees>>]_vars

\* The first of two searches was under way while a thread was deleted (a
\* directory removed), the second was issued after that and finished first:
\* the first result, applied last, still shows what is gone from the store.
C18_Witness ==
    /\ picker_alive
    /\ Len(searches) = 2
    /\ AllDone
    /\ applied = 1
    /\ searches[1].candidates # searches[2].candidates
    /\ \E k \in 1..Len(matches) : ~InStoreNow(matches[k])

\* C19: every search that was started completes, and a picker that stays
\* ends up showing the result of the query issued last, for good.
C19_LastQueryShownInTheEnd ==
    /\ \A i \in 1..MaxQueries :
          [](Len(searches) >= i => <>(Len(searches) >= i /\ searches[i].status = "done"))
    /\ ([]picker_alive)
          => <>[](Len(searches) > 0 => matches = Displayed(searches[Len(searches)]))

\* C20: the directory picker's confirm inserts nothing itself; it hands the
\* path and worktree of the match selected at that moment to a task, and the
\* task inserts that path, whatever matches and selected_index are when it
\* runs, then dismisses a Close picker; a task that finds the picker gone
\* does nothing.
C20_ConfirmInsertsWhatWasSelected ==
    [][/\ DirConfirm =>
             /\ effects' = effects
             /\ (selected_index < Len(matches) /\ workspace_alive) =>
                   confirm_tasks' =
                       Append(confirm_tasks,
                              [path |-> Selected.path,
                               worktree_id |-> Selected.worktree_id,
                               confirm_behavior |-> confirm_behavior])
       /\ \A i \in 1..MaxConfirms :
             DirConfirmTask(i) =>
                 /\ ~picker_alive => NewEffects = <<>>
                 /\ (picker_alive /\ context_store_alive) =>
                       NewEffects =
                           <<InsertContext("Directory",
                                           to_string_lossy(confirm_tasks[i].path), <<>>)>>
                           \o (IF confirm_tasks[i].confirm_behavior = "Close"
                                   /\ context_picker_alive
                               THEN <<ResetMode, DismissEvent>> ELSE <<>>)]_vars

\* The task of a confirm has yet to run, and what the picker has selected by
\* now is another directory than the one confirm handed to the task.
C20_Witness ==
    /\ picker_alive
    /\ context_store_alive
    /\ confirm_tasks # <<>>
    /\ selected_index < Len(matches)
    /\ Selected.path # confirm_tasks[1].path

\* A search task of the picker, still alive, applies its result in this step.
ResultApplied(i) ==
    /\ picker_alive
    /\ i <= Len(searches)
    /\ searches[i].status = "running"
    /\ searches'[i].status = "done"

\* C21: a result applied by the thread picker sets selected_index to 0,
\* whatever it was; a result applied by the directory picker leaves
\* selected_index as it is; and a step that changes selected_index without
\* applying a result (set_selected_index) stores one of the indices given,
\* checked against nothing, and changes nothing else.
C21_SelectionOnApply ==
    [][/\ \A i \in 1..MaxQueries :
             ResultApplied(i) =>
                 IF picker_kind = "thread"
                 THEN selected_index' = 0
                 ELSE selected_index' = selected_index
       /\ (selected_index' # selected_index /\ \A i \in 1..MaxQueries : ~ResultApplied(i))
             => /\ selected_index' \in 0..MaxIndex
                /\ UNCHANGED <<picker_kind, confirm_behavior, picker_alive,
                               workspace_alive, thread_store_alive,
                               context_store_alive, context_picker_alive,
                               worktrees, threads, matches, searches, applied,
                               confirm_tasks, effects, calls, sessions,
                               session_outcome>>]_vars

\* The thread picker applied two results, the second over a selection that
\* could have been moved meanwhile, and the selection is the first entry.
C21_Witness ==
    /\ picker_kind = "thread"
    /\ picker_alive
    /\ Len(searches) = MaxQueries
    /\ AllDone
    /\ applied > 0
    /\ Len(matches) > MaxIndex
    /\ selected_index = 0

\* What comparing the session ids of two sessions comes to, by their modes:
\* two Inert sessions have the same (absent) id, two Running sessions the
\* same id when their client ids are the same, an Inert and a Running
\* session never.
SameSessionId(self, existing) ==
    \/ self.mode = "Inert" /\ existing.mode = "Inert"
    \/ /\ self.mode = "Running"
       /\ existing.mode = "Running"
       /\ self.client_id = existing.client_id

\* C22: every call of dedup returns KeepExisting or no dedup: KeepExisting
\* exactly when the two sessions have the same session id (two absent ids
\* being the same), no dedup otherwise.
C22_DedupComparesSessionIds ==
    [][\A i, j \in 1..MaxSessions :
          Dedup(i, j) =>
              /\ session_outcome' \in {KeepExisting, None}
              /\ session_outcome' = KeepExisting
                    <=> SameSessionId(sessions[i], sessions[j])]_vars

\* C22, for sessions that are Inert or Running: dedup of two such sessions
\* returns KeepExisting exactly when their session ids are the same, and no
\* dedup otherwise.
C22_DedupOfInertAndRunning ==
    [][\A i, j \in 1..MaxSessions :
          (Dedup(i, j) /\ sessions[i].mode # "Starting" /\ sessions[j].mode # "Starting")
              => /\ session_outcome' \in {KeepExisting, None}
                 /\ session_outcome' = KeepExisting
                       <=> SameSessionId(sessions[i], sessions[j])]_vars

====
